---- MODULE Spec2Model ----
(***************************************************************************)
(* Model of the component-maintenance engine of src/tree.js: adjacency     *)
(* lists (objects mapping a node id to an array of neighbour ids), the     *)
(* list of connected components kept by the four component-level           *)
(* operations, and the connectivity scan they rely on.                     *)
(* The graph functions of the same file (connectivity scans, tree           *)
(* classifiers, makeAdjacencyListBidirectional, the nested-list builder)   *)
(* are modelled as operators and called, once per run, on an input graph   *)
(* by SpecGraph and SpecClosedGraph.                                       *)
(*                                                                         *)
(* Node ids are the integer-like strings "0", "1", ... of src/index.js;    *)
(* they are modelled as the naturals 0..MaxId.  A JavaScript object with   *)
(* integer-like keys enumerates them in ascending numeric order, so an     *)
(* adjacency list is a function from a set of ids to sequences of ids and  *)
(* `for (k in obj)` is a walk over ObjectKeys(obj).  An array value is     *)
(* always truthy, so `obj[k]` used as a condition is `k \in DOMAIN obj`.   *)
(* A thrown TypeError is recorded in the variable fault.                   *)
(* TLC prints a function whose domain is 1..n as a tuple, so the fragment  *)
(* {"1": []} shows as <<<<>>>> in a trace.                                 *)
(***************************************************************************)
EXTENDS Integers, Sequences, FiniteSets, TLC

\* ids are 0..MaxId.  A run of Spec makes at most MaxOps calls whose argument
\* arrays hold at most MaxNeighbors ids; a run of SpecShort makes at most
\* MaxShortOps calls whose argument arrays hold at most MaxShortNeighbors ids.
MaxId == 2
MaxNeighbors == 2
MaxOps == 3
MaxShortNeighbors == 1
MaxShortOps == 1

\* The input graphs of SpecGraph have ids 0..MaxGraphId and at most
\* MaxGraphEdges edges.
MaxGraphId == 3
MaxGraphEdges == 3

\* The graphs edited by SpecEdit have ids 0..MaxEditId and start with at most
\* MaxEditEdges edges; a run makes at most MaxEdits calls of the primitives,
\* whose neighbors argument holds at most MaxEditNeighbors ids.
MaxEditId == 2
MaxEditEdges == 2
MaxEditNeighbors == 2
MaxEdits == 2

\* The graphs whose components SpecRoundTrip starts from have ids 0..MaxId and
\* at most MaxScannedEdges edges.
MaxScannedEdges == 2

Ids == 0..MaxId

\* components .. nOps: the caller of the component-level operations;
\* graph, call, result: the caller of the graph functions (SpecGraph) and of
\* the primitives (SpecEdit, which counts its calls in nOps).
VARIABLES components, prev, lastOp, fault, universe, nOps, graph, call, result

partitionVars == <<components, prev, lastOp, fault, universe, nOps>>

graphVars == <<graph, call, result>>

vars == <<components, prev, lastOp, fault, universe, nOps, graph, call, result>>

----------------------------------------------------------------------------
(* JavaScript built-ins used by the code *)

RECURSIVE SortedSeq(_)
SortedSeq(S) ==
    IF S = {} THEN <<>>
    ELSE LET m == CHOOSE x \in S : \A y \in S : x <= y
         IN <<m>> \o SortedSeq(S \ {m})

ObjectKeys(adj) == SortedSeq(DOMAIN adj)

includes(seq, x) == \E i \in 1..Len(seq) : seq[i] = x

Elems(seq) == {seq[i] : i \in 1..Len(seq)}

\* [...new Set(seq)]: first occurrences, in order
RECURSIVE unique(_)
unique(seq) ==
    IF seq = <<>> THEN <<>>
    ELSE LET init == unique(SubSeq(seq, 1, Len(seq) - 1))
             last == seq[Len(seq)]
         IN IF includes(init, last) THEN init ELSE Append(init, last)

\* obj[k] = v
Put(adj, k, v) == [x \in (DOMAIN adj) \cup {k} |-> IF x = k THEN v ELSE adj[x]]

\* Object.assign(target, source)
ObjectAssign(target, source) ==
    [x \in (DOMAIN target) \cup (DOMAIN source) |->
        IF x \in DOMAIN source THEN source[x] ELSE target[x]]

\* arr.splice(i, 1) for a 1-based position i of arr
RemoveAt(seq, i) == SubSeq(seq, 1, i - 1) \o SubSeq(seq, i + 1, Len(seq))

\* arr.slice in place of arr.splice: the array is left as it was
sliceIndexOf(seq, idx) == seq

\* arr.splice(arr.indexOf(x), 1), idx being the 1-based position of x or 0
\* when x is not in arr: indexOf gives -1 and splice(-1, 1) removes the last
\* element of a non-empty array.
spliceIndexOf(seq, idx) ==
    IF idx = 0
    THEN (IF Len(seq) = 0 THEN seq ELSE SubSeq(seq, 1, Len(seq) - 1))
    ELSE RemoveAt(seq, idx)

EmptyObject == [x \in {} |-> <<>>]

----------------------------------------------------------------------------
(* AdjacencyGraph primitives *)

RECURSIVE registerNeighbors(_, _, _)
registerNeighbors(adj, neighbors, i) ==
    IF i > Len(neighbors) THEN adj
    ELSE registerNeighbors(
            IF neighbors[i] \in DOMAIN adj THEN adj ELSE Put(adj, neighbors[i], <<>>),
            neighbors, i + 1)

addNodeToAdjacencyList(adj, node, neighbors) ==
    LET a1 == registerNeighbors(adj, neighbors, 1)
    IN IF node \in DOMAIN a1
       THEN Put(a1, node, unique(a1[node] \o neighbors))
       ELSE Put(a1, node, neighbors)

\* bidirectional = false, the only mode the component operations use
addEdgeToAdjacencyList(adj, parentNode, childNode) ==
    addNodeToAdjacencyList(adj, parentNode, <<childNode>>)

filterOut(seq, node) == SelectSeq(seq, LAMBDA n : n # node)

\* the key is deleted but the other lists are not filtered
removeNodeFromAdjacencyList_unfiltered(adj, node) ==
    [n \in (DOMAIN adj) \ {node} |-> adj[n]]

\* the lists are filtered but the key is not deleted
removeNodeFromAdjacencyList_keepKey(adj, node) ==
    [n \in DOMAIN adj |-> filterOut(adj[n], node)]

removeNodeFromAdjacencyList(adj, node) ==
    [n \in (DOMAIN adj) \ {node} |-> filterOut(adj[n], node)]

\* the edge is left in the list
removeEdgeFromAdjacencyList_kept(adj, parentNode, childNode) == adj

\* bidirectional = false; the caller guarantees parentNode is a key
removeEdgeFromAdjacencyList(adj, parentNode, childNode) ==
    Put(adj, parentNode, filterOut(adj[parentNode], childNode))

\* The call with its bidirectional parameter.  bidirectional = true calls
\* addEdgeToAdjacencyList_bidirectional, a name no file defines: the call
\* throws a ReferenceError before the list is touched.
addEdgeToAdjacencyList_mode(adj, parentNode, childNode, bidirectional) ==
    IF bidirectional
    THEN [adj |-> adj, fault |-> TRUE]
    ELSE [adj |-> addEdgeToAdjacencyList(adj, parentNode, childNode), fault |-> FALSE]

\* adjList[parentNode].filter(...) of one direction: a TypeError when
\* parentNode is not a key
removeEdgeFromAdjacencyList_filter(adj, parentNode, childNode) ==
    IF parentNode \in DOMAIN adj
    THEN [adj |-> removeEdgeFromAdjacencyList(adj, parentNode, childNode), fault |-> FALSE]
    ELSE [adj |-> adj, fault |-> TRUE]

\* The call with its bidirectional parameter: the reverse direction first,
\* by a recursive call, then the direction asked for.
removeEdgeFromAdjacencyList_mode(adj, parentNode, childNode, bidirectional) ==
    LET reverse == IF bidirectional
                   THEN removeEdgeFromAdjacencyList_filter(adj, childNode, parentNode)
                   ELSE [adj |-> adj, fault |-> FALSE]
    IN IF reverse.fault THEN reverse
       ELSE removeEdgeFromAdjacencyList_filter(reverse.adj, parentNode, childNode)

RECURSIVE mergeAdjacencyListsOfUnconnectedGraphs(_)
mergeAdjacencyListsOfUnconnectedGraphs(adjLists) ==
    IF adjLists = <<>> THEN EmptyObject
    ELSE ObjectAssign(
            mergeAdjacencyListsOfUnconnectedGraphs(SubSeq(adjLists, 1, Len(adjLists) - 1)),
            adjLists[Len(adjLists)])

----------------------------------------------------------------------------
(* Connectivity scan, directed mode.  The traversal state is the shared    *)
(* visited set plus a flag telling that `adjList[node]` was undefined when *)
(* iterated (a neighbour that is not a key), which throws.                 *)

RECURSIVE dfs_directed(_, _, _), dfs_forward(_, _, _, _), dfs_reverse(_, _, _, _, _)
dfs_directed(adj, node, st) ==
    LET s1 == [st EXCEPT !.visited = @ \cup {node}]
    IN IF node \notin DOMAIN adj THEN [s1 EXCEPT !.fault = TRUE]
       ELSE LET s2 == dfs_forward(adj, adj[node], 1, s1)
            IN IF s2.fault THEN s2
               ELSE dfs_reverse(adj, node, ObjectKeys(adj), 1, s2)

dfs_forward(adj, nbrs, i, st) ==
    IF st.fault \/ i > Len(nbrs) THEN st
    ELSE dfs_forward(adj, nbrs, i + 1,
            IF nbrs[i] \in st.visited THEN st ELSE dfs_directed(adj, nbrs[i], st))

\* the reverse pass is left out
dfs_noReverse(adj, node, keys, i, st) == st

dfs_reverse(adj, node, keys, i, st) ==
    IF st.fault \/ i > Len(keys) THEN st
    ELSE dfs_reverse(adj, node, keys, i + 1,
            IF keys[i] \notin st.visited /\ includes(adj[keys[i]], node)
            THEN dfs_directed(adj, keys[i], st) ELSE st)

RECURSIVE scan_directed(_, _, _, _)
scan_directed(adj, keys, i, acc) ==
    IF acc.fault \/ i > Len(keys) THEN acc
    ELSE IF keys[i] \in acc.visited THEN scan_directed(adj, keys, i + 1, acc)
    ELSE LET st == dfs_directed(adj, keys[i], [visited |-> acc.visited, fault |-> FALSE])
             component == [n \in (st.visited \ acc.visited) \cap DOMAIN adj |-> adj[n]]
         IN scan_directed(adj, keys, i + 1,
                [visited |-> st.visited,
                 fault |-> st.fault,
                 comps |-> IF st.fault THEN acc.comps ELSE Append(acc.comps, component)])

\* result: [comps |-> the fragments, fault |-> whether the scan threw]
getConnectedComponents_directed(adj) ==
    LET r == scan_directed(adj, ObjectKeys(adj), 1,
                           [visited |-> {}, fault |-> FALSE, comps |-> <<>>])
    IN [comps |-> r.comps, fault |-> r.fault]

getConnectedComponents(adj) == getConnectedComponents_directed(adj)

\* getConnectedComponents_undirected: the traversal follows the lists only
RECURSIVE dfs_undirected(_, _, _), dfs_undirected_each(_, _, _, _)
dfs_undirected(adj, node, st) ==
    LET s1 == [st EXCEPT !.visited = @ \cup {node}]
    IN IF node \notin DOMAIN adj THEN [s1 EXCEPT !.fault = TRUE]
       ELSE dfs_undirected_each(adj, adj[node], 1, s1)

dfs_undirected_each(adj, nbrs, i, st) ==
    IF st.fault \/ i > Len(nbrs) THEN st
    ELSE dfs_undirected_each(adj, nbrs, i + 1,
            IF nbrs[i] \in st.visited THEN st ELSE dfs_undirected(adj, nbrs[i], st))

RECURSIVE scan_undirected(_, _, _, _)
scan_undirected(adj, keys, i, acc) ==
    IF acc.fault \/ i > Len(keys) THEN acc
    ELSE IF keys[i] \in acc.visited THEN scan_undirected(adj, keys, i + 1, acc)
    ELSE LET st == dfs_undirected(adj, keys[i], [visited |-> acc.visited, fault |-> FALSE])
             component == [n \in (st.visited \ acc.visited) \cap DOMAIN adj |-> adj[n]]
         IN scan_undirected(adj, keys, i + 1,
                [visited |-> st.visited,
                 fault |-> st.fault,
                 comps |-> IF st.fault THEN acc.comps ELSE Append(acc.comps, component)])

getConnectedComponents_undirected(adj) ==
    LET r == scan_undirected(adj, ObjectKeys(adj), 1,
                             [visited |-> {}, fault |-> FALSE, comps |-> <<>>])
    IN [comps |-> r.comps, fault |-> r.fault]

\* getConnectedComponents with its second parameter
getConnectedComponents_mode(adj, bidirectional) ==
    IF bidirectional THEN getConnectedComponents_undirected(adj)
    ELSE getConnectedComponents_directed(adj)

----------------------------------------------------------------------------
(* Bidirectionalizer.  An array of the result is either a fresh copy or    *)
(* the very array of the argument (shared): a push to a shared array also  *)
(* changes the argument.  The operator returns the result and the argument *)
(* as the call leaves it.                                                  *)

\* the array itself instead of a copy
sameArray(list) == [items |-> list, shared |-> TRUE]

\* a fresh empty array instead of a copy
emptyArray(list) == [items |-> <<>>, shared |-> FALSE]

\* [...list]
spread(list) == [items |-> list, shared |-> FALSE]

\* unshift in place of push: node is put at the front
unshift(st, neighbor, node) ==
    [st EXCEPT !.bi[neighbor].items = <<node>> \o @,
               !.adj = IF st.bi[neighbor].shared
                       THEN [@ EXCEPT ![neighbor] = <<node>> \o @]
                       ELSE @]

\* bi[neighbor].push(node)
push(st, neighbor, node) ==
    [st EXCEPT !.bi[neighbor].items = Append(@, node),
               !.adj = IF st.bi[neighbor].shared
                       THEN [@ EXCEPT ![neighbor] = Append(@, node)]
                       ELSE @]

\* the body of the inner loop for the i-th neighbour of node
RECURSIVE addReverseEdges(_, _, _)
addReverseEdges(st, node, i) ==
    IF st.fault \/ i > Len(st.adj[node]) THEN st
    ELSE LET neighbor == st.adj[node][i]
         IN IF neighbor \notin DOMAIN st.bi /\ neighbor \notin DOMAIN st.adj
            THEN \* [...undefined]
                 [st EXCEPT !.fault = TRUE]
            ELSE LET s1 == IF neighbor \in DOMAIN st.bi THEN st
                           ELSE [st EXCEPT !.bi = Put(@, neighbor, spread(st.adj[neighbor]))]
                     s2 == IF includes(s1.bi[neighbor].items, node) THEN s1
                           ELSE push(s1, neighbor, node)
                 IN addReverseEdges(s2, node, i + 1)

RECURSIVE makeBidirectional_nodes(_, _, _)
makeBidirectional_nodes(st, keys, i) ==
    IF st.fault \/ i > Len(keys) THEN st
    ELSE LET node == keys[i]
             s1 == IF node \in DOMAIN st.bi THEN st
                   ELSE [st EXCEPT !.bi = Put(@, node, spread(st.adj[node]))]
         IN makeBidirectional_nodes(addReverseEdges(s1, node, 1), keys, i + 1)

\* result: [result |-> the new graph, arg |-> the argument after the call,
\*          fault |-> whether the call threw]
makeAdjacencyListBidirectional(adjacencyList) ==
    LET st == makeBidirectional_nodes(
                  [bi |-> EmptyObject, adj |-> adjacencyList, fault |-> FALSE],
                  ObjectKeys(adjacencyList), 1)
    IN [result |-> [n \in DOMAIN st.bi |-> st.bi[n].items],
        arg |-> st.adj,
        fault |-> st.fault]

isBidirectional(adjacencyList) ==
    \A node \in DOMAIN adjacencyList :
        \A i \in 1..Len(adjacencyList[node]) :
            LET neighbor == adjacencyList[node][i]
            IN /\ neighbor \in DOMAIN adjacencyList
               /\ includes(adjacencyList[neighbor], node)

----------------------------------------------------------------------------
(* TreeClassifier *)

\* inDegree[neighbor] = (inDegree[neighbor] || 0) + 1, for each neighbour
RECURSIVE countNeighbors(_, _, _)
countNeighbors(inDegree, nbrs, i) ==
    IF i > Len(nbrs) THEN inDegree
    ELSE countNeighbors(
            Put(inDegree, nbrs[i],
                (IF nbrs[i] \in DOMAIN inDegree THEN inDegree[nbrs[i]] ELSE 0) + 1),
            nbrs, i + 1)

\* the loop over the keys: inDegree[node] = 0 is assigned whatever was
\* counted for node before
RECURSIVE getIndegrees_nodes(_, _, _, _)
getIndegrees_nodes(adj, keys, i, inDegree) ==
    IF i > Len(keys) THEN inDegree
    ELSE getIndegrees_nodes(adj, keys, i + 1,
            countNeighbors(Put(inDegree, keys[i], 0), adj[keys[i]], 1))

getIndegrees(adjacencyList) ==
    getIndegrees_nodes(adjacencyList, ObjectKeys(adjacencyList), 1, EmptyObject)

getNodesWithZeroIndegree(adjacencyList) ==
    LET inDegree == getIndegrees(adjacencyList)
    IN SelectSeq(SortedSeq(DOMAIN inDegree), LAMBDA node : inDegree[node] = 0)

\* the dfs of isDirectedTree
RECURSIVE isDirectedTree_dfs(_, _, _), isDirectedTree_children(_, _, _, _)
isDirectedTree_dfs(adj, node, st) ==
    LET s1 == [st EXCEPT !.visited = @ \cup {node}]
    IN IF node \notin DOMAIN adj THEN [s1 EXCEPT !.fault = TRUE]
       ELSE isDirectedTree_children(adj, adj[node], 1, s1)

isDirectedTree_children(adj, nbrs, i, st) ==
    IF st.fault \/ i > Len(nbrs) THEN st
    ELSE isDirectedTree_children(adj, nbrs, i + 1,
            IF nbrs[i] \in st.visited THEN st ELSE isDirectedTree_dfs(adj, nbrs[i], st))

\* what isDirectedTree returns: a node, false or null
ReturnNode(node) == [is |-> "node", node |-> node]
ReturnFalse == [is |-> "false"]
ReturnNull == [is |-> "null"]

RECURSIVE isDirectedTree_roots(_, _, _)
isDirectedTree_roots(adj, roots, i) ==
    IF i > Len(roots) THEN [value |-> ReturnNull, fault |-> FALSE]
    ELSE LET st == isDirectedTree_dfs(adj, roots[i], [visited |-> {}, fault |-> FALSE])
         IN IF st.fault THEN [value |-> ReturnNull, fault |-> TRUE]
            ELSE IF Cardinality(st.visited) = Cardinality(DOMAIN adj)
            THEN [value |-> ReturnNode(roots[i]), fault |-> FALSE]
            ELSE isDirectedTree_roots(adj, roots, i + 1)

\* result: [value |-> what is returned, fault |-> whether the call threw]
isDirectedTree(adjList) ==
    LET roots == getNodesWithZeroIndegree(adjList)
    IN IF Len(roots) = 0 THEN [value |-> ReturnFalse, fault |-> FALSE]
       ELSE isDirectedTree_roots(adjList, roots, 1)

\* the parent of the start node, equal to no id
Null == -1

\* the dfs of isUndirectedAcyclicGraph: whether a visited neighbour other
\* than parent was met
RECURSIVE isUndirectedAcyclicGraph_dfs(_, _, _, _), isUndirectedAcyclicGraph_each(_, _, _, _, _)
isUndirectedAcyclicGraph_dfs(bi, node, parent, visited) ==
    isUndirectedAcyclicGraph_each(bi, node, parent, 1, visited \cup {node})

isUndirectedAcyclicGraph_each(bi, node, parent, i, visited) ==
    IF i > Len(bi[node]) THEN [found |-> FALSE, visited |-> visited]
    ELSE LET neighbor == bi[node][i]
         IN IF neighbor \notin visited
            THEN LET r == isUndirectedAcyclicGraph_dfs(bi, neighbor, node, visited)
                 IN IF r.found THEN r
                    ELSE isUndirectedAcyclicGraph_each(bi, node, parent, i + 1, r.visited)
            ELSE IF neighbor # parent
            THEN [found |-> TRUE, visited |-> visited]
            ELSE isUndirectedAcyclicGraph_each(bi, node, parent, i + 1, visited)

\* result: [value |-> the boolean returned, arg |-> the argument after the
\*          call, fault |-> whether the call threw]
isUndirectedAcyclicGraph(adjacencyList) ==
    LET m == makeAdjacencyListBidirectional(adjacencyList)
        keys == ObjectKeys(m.result)
    IN IF m.fault \/ Len(keys) = 0
       THEN \* an empty graph: root is undefined and bi[undefined] is iterated
            [value |-> FALSE, arg |-> m.arg, fault |-> TRUE]
       ELSE [value |-> ~isUndirectedAcyclicGraph_dfs(m.result, keys[1], Null, {}).found,
             arg |-> m.arg,
             fault |-> FALSE]

isUndirectedTree(adjList) == isUndirectedAcyclicGraph(adjList)

\* hasCycle of isDirectedAcyclicGraph.  visited holds the nodes of all
\* searches, searchVisited those of the search going on; a node stays in
\* searchVisited when its call returns.  Iterating the list of an id that is
\* not a key throws.
RECURSIVE hasCycle(_, _, _, _, _), hasCycle_each(_, _, _, _, _, _)
hasCycle(adjacencyList, node, parent, visited, searchVisited) ==
    IF node \notin DOMAIN adjacencyList
    THEN [found |-> FALSE, fault |-> TRUE,
          visited |-> visited \cup {node}, searchVisited |-> searchVisited \cup {node}]
    ELSE hasCycle_each(adjacencyList, node, parent, 1,
                       visited \cup {node}, searchVisited \cup {node})

hasCycle_each(adjacencyList, node, parent, i, visited, searchVisited) ==
    IF i > Len(adjacencyList[node])
    THEN [found |-> FALSE, fault |-> FALSE,
          visited |-> visited, searchVisited |-> searchVisited]
    ELSE LET neighbor == adjacencyList[node][i]
         IN IF neighbor \notin visited
            THEN LET r == hasCycle(adjacencyList, neighbor, node, visited, searchVisited)
                 IN IF r.found \/ r.fault THEN r
                    ELSE hasCycle_each(adjacencyList, node, parent, i + 1,
                                       r.visited, r.searchVisited)
            ELSE IF neighbor \in searchVisited /\ neighbor # parent
            THEN [found |-> TRUE, fault |-> FALSE,
                  visited |-> visited, searchVisited |-> searchVisited]
            ELSE hasCycle_each(adjacencyList, node, parent, i + 1,
                               visited, searchVisited)

\* the loop over the keys: a new searchVisited for each search
RECURSIVE isDirectedAcyclicGraph_nodes(_, _, _, _)
isDirectedAcyclicGraph_nodes(adjacencyList, keys, i, visited) ==
    IF i > Len(keys) THEN [value |-> TRUE, fault |-> FALSE]
    ELSE IF keys[i] \in visited
    THEN isDirectedAcyclicGraph_nodes(adjacencyList, keys, i + 1, visited)
    ELSE LET r == hasCycle(adjacencyList, keys[i], Null, visited, {})
         IN IF r.fault THEN [value |-> FALSE, fault |-> TRUE]
            ELSE IF r.found THEN [value |-> FALSE, fault |-> FALSE]
            ELSE isDirectedAcyclicGraph_nodes(adjacencyList, keys, i + 1, r.visited)

\* result: [value |-> the boolean returned, fault |-> whether the call threw]
isDirectedAcyclicGraph(adjacencyList) ==
    isDirectedAcyclicGraph_nodes(adjacencyList, ObjectKeys(adjacencyList), 1, {})

\* makeAdjacencyListBidirectional as src/unnamed/part_001 defines it, the
\* one isTree calls: the result holds new arrays, the original edge is pushed
\* whether or not the list already holds it, the reverse edge only when it
\* does not.
RECURSIVE isTree_addEdges(_, _, _, _), isTree_makeBidirectional(_, _, _, _)
isTree_addEdges(bi, node, neighbors, i) ==
    IF i > Len(neighbors) THEN bi
    ELSE LET neighbor == neighbors[i]
             b1 == Put(bi, node, Append(bi[node], neighbor))
             b2 == IF neighbor \notin DOMAIN b1 THEN Put(b1, neighbor, <<node>>)
                   ELSE IF ~includes(b1[neighbor], node)
                   THEN Put(b1, neighbor, Append(b1[neighbor], node))
                   ELSE b1
         IN isTree_addEdges(b2, node, neighbors, i + 1)

isTree_makeBidirectional(adjacencyList, keys, i, bi) ==
    IF i > Len(keys) THEN bi
    ELSE LET node == keys[i]
             b0 == IF node \in DOMAIN bi THEN bi ELSE Put(bi, node, <<>>)
         IN isTree_makeBidirectional(adjacencyList, keys, i + 1,
                isTree_addEdges(b0, node, adjacencyList[node], 1))

isTree_makeAdjacencyListBidirectional(adjacencyList) ==
    isTree_makeBidirectional(adjacencyList, ObjectKeys(adjacencyList), 1, EmptyObject)

\* the dfs of isTree: false as soon as a visited child other than parent is
\* met.  Iterating the list of an id that is not a key of biAdjList throws.
RECURSIVE isTree_dfs(_, _, _, _), isTree_each(_, _, _, _, _)
isTree_dfs(biAdjList, node, parent, visited) ==
    IF node \notin DOMAIN biAdjList
    THEN [value |-> FALSE, fault |-> TRUE, visited |-> visited \cup {node}]
    ELSE isTree_each(biAdjList, node, parent, 1, visited \cup {node})

isTree_each(biAdjList, node, parent, i, visited) ==
    IF i > Len(biAdjList[node])
    THEN [value |-> TRUE, fault |-> FALSE, visited |-> visited]
    ELSE LET child == biAdjList[node][i]
         IN IF child \notin visited
            THEN LET r == isTree_dfs(biAdjList, child, node, visited)
                 IN IF r.fault \/ ~r.value THEN r
                    ELSE isTree_each(biAdjList, node, parent, i + 1, r.visited)
            ELSE IF child # parent
            THEN [value |-> FALSE, fault |-> FALSE, visited |-> visited]
            ELSE isTree_each(biAdjList, node, parent, i + 1, visited)

\* What the dfs returns is not used: the result compares the number of
\* visited nodes with the number of keys.  On a graph without keys the dfs
\* starts at undefined and throws.
\* result: [value |-> the boolean returned, fault |-> whether the call threw]
isTree(adjList, bidirectional) ==
    LET biAdjList == IF bidirectional THEN adjList
                     ELSE isTree_makeAdjacencyListBidirectional(adjList)
        keys == ObjectKeys(adjList)
    IN IF Len(keys) = 0 THEN [value |-> FALSE, fault |-> TRUE]
       ELSE LET r == isTree_dfs(biAdjList, keys[1], Null, {})
            IN IF r.fault THEN [value |-> FALSE, fault |-> TRUE]
               ELSE [value |-> Cardinality(r.visited) = Len(keys), fault |-> FALSE]

----------------------------------------------------------------------------
(* TreeBuilder *)

\* the forEach building reverseEdges
RECURSIVE reverseEdges_neighbors(_, _, _, _), reverseEdges_entries(_, _, _, _)
reverseEdges_neighbors(reverseEdges, node, nbrs, i) ==
    IF i > Len(nbrs) THEN reverseEdges
    ELSE reverseEdges_neighbors(
            Put(reverseEdges, nbrs[i],
                Append(IF nbrs[i] \in DOMAIN reverseEdges THEN reverseEdges[nbrs[i]]
                       ELSE <<>>, node)),
            node, nbrs, i + 1)

reverseEdges_entries(adj, keys, i, reverseEdges) ==
    IF i > Len(keys) THEN reverseEdges
    ELSE reverseEdges_entries(adj, keys, i + 1,
            reverseEdges_neighbors(reverseEdges, keys[i], adj[keys[i]], 1))

\* the reverse edges are left out
noReverseEdges(reverseEdges, node) == <<>>

\* reverseEdges[node] || []
reverseEdgesOrEmpty(reverseEdges, node) ==
    IF node \in DOMAIN reverseEdges THEN reverseEdges[node] ELSE <<>>

\* the reverse edges are put before the forward ones
childrenReverseFirst(adj, reverseEdges, node) ==
    unique(reverseEdgesOrEmpty(reverseEdges, node) \o adj[node])

\* [...new Set([...adjList[node], ...(reverseEdges[node] || [])])]
childrenOf(adj, reverseEdges, node) ==
    unique(adj[node] \o reverseEdgesOrEmpty(reverseEdges, node))

\* the dfs of treeAdjacencyListToNestedList; a tree is [id, children]
RECURSIVE nestedList_dfs(_, _, _, _), nestedList_children(_, _, _, _, _, _)
nestedList_dfs(adj, reverseEdges, node, visited) ==
    IF node \notin DOMAIN adj
    THEN [tree |-> [id |-> node, children |-> <<>>],
          visited |-> visited \cup {node}, fault |-> TRUE]
    ELSE nestedList_children(adj, reverseEdges, childrenOf(adj, reverseEdges, node), 1,
                             [id |-> node, children |-> <<>>], visited \cup {node})

nestedList_children(adj, reverseEdges, children, i, nestedObj, visited) ==
    IF i > Len(children)
    THEN [tree |-> nestedObj, visited |-> visited, fault |-> FALSE]
    ELSE IF children[i] \in visited
    THEN nestedList_children(adj, reverseEdges, children, i + 1, nestedObj, visited)
    ELSE LET r == nestedList_dfs(adj, reverseEdges, children[i], visited)
         IN IF r.fault THEN [tree |-> nestedObj, visited |-> r.visited, fault |-> TRUE]
            ELSE nestedList_children(adj, reverseEdges, children, i + 1,
                    [nestedObj EXCEPT !.children = Append(@, r.tree)], r.visited)

\* root = Null stands for the default; an empty graph then has no first key
\* result: [tree |-> the nested list, fault |-> whether the call threw]
treeAdjacencyListToNestedList(adjList, root) ==
    LET keys == ObjectKeys(adjList)
        reverseEdges == reverseEdges_entries(adjList, keys, 1, EmptyObject)
    IN IF root = Null /\ Len(keys) = 0
       THEN [tree |-> [id |-> Null, children |-> <<>>], fault |-> TRUE]
       ELSE LET r == nestedList_dfs(adjList, reverseEdges,
                                    IF root = Null THEN keys[1] ELSE root, {})
            IN [tree |-> r.tree, fault |-> r.fault]

----------------------------------------------------------------------------
(* ComponentPartition: the four component-level operations.  Each operator *)
(* returns the array `components` as the call leaves it and whether the    *)
(* call threw.                                                             *)

\* 1-based position of the first component having id as a key, 0 if none
firstWith(comps, id) ==
    IF \E k \in 1..Len(comps) : id \in DOMAIN comps[k]
    THEN CHOOSE k \in 1..Len(comps) :
            /\ id \in DOMAIN comps[k]
            /\ \A j \in 1..(k - 1) : id \notin DOMAIN comps[j]
    ELSE 0

\* The neighbour loop of addNodetoAdjacencyListComponents.  A component found
\* in `components` was not spliced out before, so it is never already in
\* neighborComponents: it is always pushed there and spliced out.
RECURSIVE collectNeighborComponents(_, _, _, _)
collectNeighborComponents(comps, neighbors, i, found) ==
    IF i > Len(neighbors) THEN [rest |-> comps, found |-> found]
    ELSE LET k == firstWith(comps, neighbors[i])
         IN IF k = 0
            THEN collectNeighborComponents(comps, neighbors, i + 1, found)
            ELSE collectNeighborComponents(RemoveAt(comps, k), neighbors, i + 1,
                                           Append(found, comps[k]))

addNodetoAdjacencyListComponents(comps, node, neighbors) ==
    IF Len(neighbors) = 0
    THEN [comps |-> Append(comps, (node :> <<>>)), fault |-> FALSE]
    ELSE LET r == collectNeighborComponents(comps, neighbors, 1, <<>>)
             mergedComponents == mergeAdjacencyListsOfUnconnectedGraphs(r.found)
         IN [comps |-> Append(r.rest,
                              addNodeToAdjacencyList(mergedComponents, node, neighbors)),
             fault |-> FALSE]

removeNodeFromAdjacencyListComponents(comps, node) ==
    LET k == firstWith(comps, node)
    IN IF k = 0 THEN [comps |-> comps, fault |-> FALSE]
       ELSE LET component == removeNodeFromAdjacencyList(comps[k], node)
                separate == getConnectedComponents(component)
            IN IF DOMAIN component = {}
               THEN [comps |-> RemoveAt(comps, k), fault |-> FALSE]
               ELSE IF separate.fault
               THEN [comps |-> [comps EXCEPT ![k] = component], fault |-> TRUE]
               ELSE IF Len(separate.comps) > 1
               THEN [comps |-> RemoveAt(comps, k) \o separate.comps, fault |-> FALSE]
               ELSE [comps |-> [comps EXCEPT ![k] = component], fault |-> FALSE]

\* The lookup loop of addEdgeToAdjacencyListComponents: positions of
\* parentComponent and childComponent, 0 standing for undefined.
RECURSIVE locateEndpoints(_, _, _, _, _, _)
locateEndpoints(comps, parentNode, childNode, k, pc, cc) ==
    IF k > Len(comps) THEN [pc |-> pc, cc |-> cc]
    ELSE LET pc1 == IF parentNode \in DOMAIN comps[k] THEN k ELSE pc
             cc1 == IF childNode \in DOMAIN comps[k] THEN k ELSE cc
         IN IF pc1 # 0 /\ cc1 # 0 THEN [pc |-> pc1, cc |-> cc1]
            ELSE locateEndpoints(comps, parentNode, childNode, k + 1, pc1, cc1)

addEdgeToAdjacencyListComponents(comps, parentNode, childNode) ==
    LET loc == locateEndpoints(comps, parentNode, childNode, 1, 0, 0)
        pc == loc.pc
        cc == loc.cc
    IN IF pc = cc
       THEN IF pc = 0
            THEN \* addNodeToAdjacencyList(undefined, ...) reads undefined[childNode]
                 [comps |-> comps, fault |-> TRUE]
            ELSE [comps |-> [comps EXCEPT ![pc] =
                               addEdgeToAdjacencyList(comps[pc], parentNode, childNode)],
                  fault |-> FALSE]
       ELSE LET after1 == spliceIndexOf(comps, pc)
                \* position of childComponent in the array after the first splice
                ccAfter == IF cc = 0 THEN 0
                           ELSE IF pc = 0 THEN (IF cc = Len(comps) THEN 0 ELSE cc)
                           ELSE IF cc > pc THEN cc - 1 ELSE cc
                after2 == spliceIndexOf(after1, ccAfter)
                mergedComponents == mergeAdjacencyListsOfUnconnectedGraphs(
                    (IF pc = 0 THEN <<>> ELSE <<comps[pc]>>) \o
                    (IF cc = 0 THEN <<>> ELSE <<comps[cc]>>))
            IN [comps |-> Append(after2,
                    addEdgeToAdjacencyList(mergedComponents, parentNode, childNode)),
                fault |-> FALSE]

\* 1-based position of the first component having both ids as keys, 0 if none
firstWithBoth(comps, parentNode, childNode) ==
    IF \E k \in 1..Len(comps) : {parentNode, childNode} \subseteq DOMAIN comps[k]
    THEN CHOOSE k \in 1..Len(comps) :
            /\ {parentNode, childNode} \subseteq DOMAIN comps[k]
            /\ \A j \in 1..(k - 1) : ~({parentNode, childNode} \subseteq DOMAIN comps[j])
    ELSE 0

removeEdgeFromAdjacencyListComponents(comps, parentNode, childNode) ==
    LET k == firstWithBoth(comps, parentNode, childNode)
    IN IF k = 0
       THEN \* removeEdgeFromAdjacencyList(undefined, ...) reads undefined[parentNode]
            [comps |-> comps, fault |-> TRUE]
       ELSE LET component == removeEdgeFromAdjacencyList(comps[k], parentNode, childNode)
                separate == getConnectedComponents(component)
            IN IF separate.fault
               THEN [comps |-> [comps EXCEPT ![k] = component], fault |-> TRUE]
               ELSE IF Len(separate.comps) > 1
               THEN [comps |-> RemoveAt(comps, k) \o separate.comps, fault |-> FALSE]
               ELSE [comps |-> [comps EXCEPT ![k] = component], fault |-> FALSE]

----------------------------------------------------------------------------
(* The state machine: a caller holding one `components` array and issuing  *)
(* component-level calls one after the other.  prev is the array before    *)
(* the last call, lastOp the call, fault whether it threw, universe the    *)
(* ids inserted by completed calls and not removed since, nOps the number  *)
(* of calls made.                                                          *)

\* argument arrays of at most m ids
NeighborLists(m) == UNION {[1..n -> Ids] : n \in 0..m}

\* initial graphs: keys 0..n-1, node i pointing to i+1 or to nothing
InitGraphs ==
    {g \in UNION {[0..(n - 1) -> {<<>>} \cup {<<j>> : j \in 1..(n - 1)}] :
                     n \in 0..(MaxId + 1)} :
        \A i \in DOMAIN g : g[i] = <<>> \/ g[i] = <<i + 1>>}

KeysOf(comps) == UNION {DOMAIN comps[k] : k \in 1..Len(comps)}

NoOp == [op |-> "init", a |-> 0, b |-> 0, nbrs |-> <<>>]

\* no graph function has been called
NoCall == [fn |-> "none"]

NoResult == [fault |-> FALSE]

Init ==
    /\ \E g \in InitGraphs : components = getConnectedComponents(g).comps
    /\ prev = components
    /\ lastOp = NoOp
    /\ fault = FALSE
    /\ universe = KeysOf(components)
    /\ nOps = 0
    /\ graph = EmptyObject
    /\ call = NoCall
    /\ result = NoResult

\* ids a completed call leaves in the universe
Universe(r, inserted, removed) ==
    IF r.fault THEN universe ELSE (universe \cup inserted) \ removed

AddNode(limit, node, neighbors) ==
    LET r == addNodetoAdjacencyListComponents(components, node, neighbors)
    IN /\ nOps < limit
       /\ components' = r.comps
       /\ fault' = r.fault
       /\ prev' = components
       /\ lastOp' = [op |-> "addNode", a |-> node, b |-> 0, nbrs |-> neighbors]
       /\ universe' = Universe(r, {node} \cup Elems(neighbors), {})
       /\ nOps' = nOps + 1
       /\ UNCHANGED graphVars

RemoveNode(limit, node) ==
    LET r == removeNodeFromAdjacencyListComponents(components, node)
    IN /\ nOps < limit
       /\ components' = r.comps
       /\ fault' = r.fault
       /\ prev' = components
       /\ lastOp' = [op |-> "removeNode", a |-> node, b |-> 0, nbrs |-> <<>>]
       /\ universe' = Universe(r, {}, {node})
       /\ nOps' = nOps + 1
       /\ UNCHANGED graphVars

AddEdge(limit, parentNode, childNode) ==
    LET r == addEdgeToAdjacencyListComponents(components, parentNode, childNode)
    IN /\ nOps < limit
       /\ components' = r.comps
       /\ fault' = r.fault
       /\ prev' = components
       /\ lastOp' = [op |-> "addEdge", a |-> parentNode, b |-> childNode, nbrs |-> <<>>]
       /\ universe' = Universe(r, {parentNode, childNode}, {})
       /\ nOps' = nOps + 1
       /\ UNCHANGED graphVars

RemoveEdge(limit, parentNode, childNode) ==
    LET r == removeEdgeFromAdjacencyListComponents(components, parentNode, childNode)
    IN /\ nOps < limit
       /\ components' = r.comps
       /\ fault' = r.fault
       /\ prev' = components
       /\ lastOp' = [op |-> "removeEdge", a |-> parentNode, b |-> childNode, nbrs |-> <<>>]
       /\ universe' = Universe(r, {}, {})
       /\ nOps' = nOps + 1
       /\ UNCHANGED graphVars

Calls(limit, lists) ==
    \/ \E node \in Ids, neighbors \in lists : AddNode(limit, node, neighbors)
    \/ \E node \in Ids : RemoveNode(limit, node)
    \/ \E parentNode \in Ids, childNode \in Ids : AddEdge(limit, parentNode, childNode)
    \/ \E parentNode \in Ids, childNode \in Ids : RemoveEdge(limit, parentNode, childNode)

Next == Calls(MaxOps, NeighborLists(MaxNeighbors))

Spec == Init /\ [][Next]_vars

\* the same machine with shorter runs and shorter argument arrays
NextShort == Calls(MaxShortOps, NeighborLists(MaxShortNeighbors))

SpecShort == Init /\ [][NextShort]_vars

----------------------------------------------------------------------------
(* The caller of the graph functions: it holds one graph, built from       *)
(* external input, and makes one call on it.  graph is the caller's graph  *)
(* as it is now, call the call made (with the graph as it was before it)   *)
(* and result what the call returned and whether it threw.                 *)

GraphIds == 0..MaxGraphId

\* An input graph is given by its keys and its edges <<node, neighbour>>,
\* listed node by node and, for one node, in the order of its list; no edge
\* is listed twice, so no list holds an id twice.
EdgeList(es) ==
    \A i, j \in 1..Len(es) : i < j => (es[i][1] <= es[j][1] /\ es[i] # es[j])

GraphOf(K, es) ==
    [node \in K |->
        LET own == SelectSeq(es, LAMBDA e : e[1] = node)
        IN [i \in 1..Len(own) |-> own[i][2]]]

\* graph is a graph with the keys K, neighbours in V and at most n edges
IsInputGraph(K, V, n) ==
    \E k \in 0..n : \E es \in [1..k -> K \X V] :
        EdgeList(es) /\ graph = GraphOf(K, es)

\* the caller of the component-level operations is not there
NoPartition ==
    /\ components = <<>>
    /\ prev = <<>>
    /\ lastOp = NoOp
    /\ fault = FALSE
    /\ universe = {}
    /\ nOps = 0

\* any keys, neighbours that need not be keys
InitGraph ==
    /\ \E K \in SUBSET GraphIds : IsInputGraph(K, GraphIds, MaxGraphEdges)
    /\ call = NoCall
    /\ result = NoResult
    /\ NoPartition

\* keys 0..m-1, every neighbour a key
InitClosedGraph ==
    /\ \E m \in 0..(MaxGraphId + 1) :
          IsInputGraph(0..(m - 1), 0..(m - 1), MaxGraphEdges)
    /\ call = NoCall
    /\ result = NoResult
    /\ NoPartition

Called(fn, root, bidirectional) ==
    [fn |-> fn, root |-> root, bidirectional |-> bidirectional, before |-> graph]

GetConnectedComponents(bidirectional) ==
    LET r == getConnectedComponents_mode(graph, bidirectional)
    IN /\ call.fn = "none"
       /\ call' = Called("getConnectedComponents", Null, bidirectional)
       /\ result' = [fault |-> r.fault, comps |-> r.comps]
       /\ graph' = graph
       /\ UNCHANGED partitionVars

IsDirectedTree ==
    LET r == isDirectedTree(graph)
    IN /\ call.fn = "none"
       /\ call' = Called("isDirectedTree", Null, FALSE)
       /\ result' = [fault |-> r.fault, value |-> r.value]
       /\ graph' = graph
       /\ UNCHANGED partitionVars

IsUndirectedTree ==
    LET r == isUndirectedTree(graph)
    IN /\ call.fn = "none"
       /\ call' = Called("isUndirectedTree", Null, FALSE)
       /\ result' = [fault |-> r.fault, value |-> r.value]
       /\ graph' = r.arg
       /\ UNCHANGED partitionVars

MakeAdjacencyListBidirectional ==
    LET r == makeAdjacencyListBidirectional(graph)
    IN /\ call.fn = "none"
       /\ call' = Called("makeAdjacencyListBidirectional", Null, FALSE)
       /\ result' = [fault |-> r.fault, value |-> r.result]
       /\ graph' = r.arg
       /\ UNCHANGED partitionVars

\* a second call, on what the first call returned
MakeAdjacencyListBidirectionalAgain ==
    LET r == makeAdjacencyListBidirectional(result.value)
    IN /\ call.fn = "makeAdjacencyListBidirectional"
       /\ ~result.fault
       /\ call' = [Called("makeAdjacencyListBidirectional again", Null, FALSE)
                      EXCEPT !.before = result.value]
       /\ result' = [fault |-> r.fault, value |-> r.result]
       /\ graph' = graph
       /\ UNCHANGED partitionVars

IsDirectedAcyclicGraph ==
    LET r == isDirectedAcyclicGraph(graph)
    IN /\ call.fn = "none"
       /\ call' = Called("isDirectedAcyclicGraph", Null, FALSE)
       /\ result' = [fault |-> r.fault, value |-> r.value]
       /\ graph' = graph
       /\ UNCHANGED partitionVars

IsTree(bidirectional) ==
    LET r == isTree(graph, bidirectional)
    IN /\ call.fn = "none"
       /\ call' = Called("isTree", Null, bidirectional)
       /\ result' = [fault |-> r.fault, value |-> r.value]
       /\ graph' = graph
       /\ UNCHANGED partitionVars

TreeAdjacencyListToNestedList(root) ==
    LET r == treeAdjacencyListToNestedList(graph, root)
    IN /\ call.fn = "none"
       /\ call' = Called("treeAdjacencyListToNestedList", root, FALSE)
       /\ result' = [fault |-> r.fault, tree |-> r.tree]
       /\ graph' = graph
       /\ UNCHANGED partitionVars

NextGraph ==
    \/ \E bidirectional \in BOOLEAN : GetConnectedComponents(bidirectional)
    \/ IsDirectedTree
    \/ IsUndirectedTree
    \/ IsDirectedAcyclicGraph
    \/ \E bidirectional \in BOOLEAN : IsTree(bidirectional)
    \/ MakeAdjacencyListBidirectional
    \/ MakeAdjacencyListBidirectionalAgain
    \/ \E root \in GraphIds \cup {Null} : TreeAdjacencyListToNestedList(root)

SpecGraph == InitGraph /\ [][NextGraph]_vars

\* the same caller holding a graph whose neighbours are all keys
SpecClosedGraph == InitClosedGraph /\ [][NextGraph]_vars

----------------------------------------------------------------------------
(* The caller of the primitives: it holds one graph whose lists hold no id *)
(* twice and edits it in place, call after call.  call is the last call    *)
(* made, with the graph as it was before it; nOps counts the calls.  An    *)
(* action is enabled when its caller is ready for one more call.           *)

EditIds == 0..MaxEditId

\* the arrays a caller passes as neighbors: an id may be repeated
EditNeighbors == UNION {[1..n -> EditIds] : n \in 0..MaxEditNeighbors}

InitEdit ==
    /\ \E K \in SUBSET EditIds : IsInputGraph(K, EditIds, MaxEditEdges)
    /\ call = NoCall
    /\ result = NoResult
    /\ NoPartition

Edited(fn, node, other, neighbors, bidirectional) ==
    [fn |-> fn, node |-> node, other |-> other, neighbors |-> neighbors,
     bidirectional |-> bidirectional, before |-> graph]

AddNodeToAdjacencyList(ready, node, neighbors) ==
    /\ ready
    /\ call' = Edited("addNodeToAdjacencyList", node, Null, neighbors, FALSE)
    /\ graph' = addNodeToAdjacencyList(graph, node, neighbors)
    /\ result' = [fault |-> FALSE]
    /\ nOps' = nOps + 1
    /\ UNCHANGED <<components, prev, lastOp, fault, universe>>

AddEdgeToAdjacencyList(ready, parentNode, childNode, bidirectional) ==
    LET r == addEdgeToAdjacencyList_mode(graph, parentNode, childNode, bidirectional)
    IN /\ ready
       /\ call' = Edited("addEdgeToAdjacencyList", parentNode, childNode, <<>>, bidirectional)
       /\ graph' = r.adj
       /\ result' = [fault |-> r.fault]
       /\ nOps' = nOps + 1
       /\ UNCHANGED <<components, prev, lastOp, fault, universe>>

RemoveNodeFromAdjacencyList(ready, node) ==
    /\ ready
    /\ call' = Edited("removeNodeFromAdjacencyList", node, Null, <<>>, FALSE)
    /\ graph' = removeNodeFromAdjacencyList(graph, node)
    /\ result' = [fault |-> FALSE]
    /\ nOps' = nOps + 1
    /\ UNCHANGED <<components, prev, lastOp, fault, universe>>

RemoveEdgeFromAdjacencyList(ready, parentNode, childNode, bidirectional) ==
    LET r == removeEdgeFromAdjacencyList_mode(graph, parentNode, childNode, bidirectional)
    IN /\ ready
       /\ call' = Edited("removeEdgeFromAdjacencyList", parentNode, childNode, <<>>, bidirectional)
       /\ graph' = r.adj
       /\ result' = [fault |-> r.fault]
       /\ nOps' = nOps + 1
       /\ UNCHANGED <<components, prev, lastOp, fault, universe>>

NextEdit ==
    \/ \E node \in EditIds : \E neighbors \in EditNeighbors :
          AddNodeToAdjacencyList(nOps < MaxEdits, node, neighbors)
    \/ \E parentNode, childNode \in EditIds : \E bidirectional \in BOOLEAN :
          AddEdgeToAdjacencyList(nOps < MaxEdits, parentNode, childNode, bidirectional)
    \/ \E node \in EditIds : RemoveNodeFromAdjacencyList(nOps < MaxEdits, node)
    \/ \E parentNode, childNode \in EditIds : \E bidirectional \in BOOLEAN :
          RemoveEdgeFromAdjacencyList(nOps < MaxEdits, parentNode, childNode, bidirectional)

SpecEdit == InitEdit /\ [][NextEdit]_vars

\* one removal from an input graph whose neighbours are all keys
NextRemove ==
    \/ \E node \in GraphIds : RemoveNodeFromAdjacencyList(call.fn = "none", node)
    \/ \E parentNode, childNode \in GraphIds : \E bidirectional \in BOOLEAN :
          RemoveEdgeFromAdjacencyList(call.fn = "none", parentNode, childNode, bidirectional)

SpecRemove == InitClosedGraph /\ [][NextRemove]_vars

----------------------------------------------------------------------------
(* The caller of the component-level operations again, for one insertion   *)
(* of an edge followed by one removal: it starts, as src/index.js does,    *)
(* from the components of an input graph whose neighbours are all keys     *)
(* (ids 0..MaxId, at most MaxScannedEdges edges).                          *)

InitScanned ==
    /\ \E m \in 0..(MaxId + 1) : \E k \in 0..MaxScannedEdges :
          \E es \in [1..k -> (0..(m - 1)) \X (0..(m - 1))] :
              /\ EdgeList(es)
              /\ components = getConnectedComponents(GraphOf(0..(m - 1), es)).comps
    /\ prev = components
    /\ lastOp = NoOp
    /\ fault = FALSE
    /\ universe = KeysOf(components)
    /\ nOps = 0
    /\ graph = EmptyObject
    /\ call = NoCall
    /\ result = NoResult

NextRoundTrip ==
    \/ /\ lastOp.op = "init"
       /\ \E parentNode \in Ids, childNode \in Ids : AddEdge(MaxOps, parentNode, childNode)
    \/ /\ lastOp.op = "addEdge"
       /\ \E parentNode \in Ids, childNode \in Ids : RemoveEdge(MaxOps, parentNode, childNode)

SpecRoundTrip == InitScanned /\ [][NextRoundTrip]_vars

----------------------------------------------------------------------------
(* Vocabulary of the properties, defined without the code's traversals.    *)

Disjoint(comps) ==
    \A i, j \in 1..Len(comps) : i # j => (DOMAIN comps[i]) \cap (DOMAIN comps[j]) = {}

\* every neighbour of the fragment is one of its keys
Closed(g) == \A n \in DOMAIN g : Elems(g[n]) \subseteq DOMAIN g

\* an edge of g joins a and b, in either direction
Linked(g, a, b) == includes(g[a], b) \/ includes(g[b], a)

\* the keys of g reachable from the set S along edges taken in either direction
RECURSIVE ReachableFrom(_, _)
ReachableFrom(g, S) ==
    LET T == S \cup {b \in DOMAIN g : \E a \in S \cap DOMAIN g : Linked(g, a, b)}
    IN IF T = S THEN S ELSE ReachableFrom(g, T)

Connected(g) == \A n \in DOMAIN g : ReachableFrom(g, {n}) = DOMAIN g

\* key sets of the weakly connected components of g
WeakComponents(g) == {ReachableFrom(g, {n}) : n \in DOMAIN g}

Restrict(g, S) == [n \in S |-> g[n]]

ValidPartition(comps) ==
    /\ Disjoint(comps)
    /\ \A k \in 1..Len(comps) :
          DOMAIN comps[k] # {} /\ Closed(comps[k]) /\ Connected(comps[k])

\* positions of the components having id as a key
Holders(comps, id) == {k \in 1..Len(comps) : id \in DOMAIN comps[k]}

----------------------------------------------------------------------------
(* Claims *)

\* C1: after every call no node id is a key of two different components.
C1_Disjoint == Disjoint(components)

\* C2: after every call the keys of all components together are exactly the
\* ids inserted so far (as a node, a neighbour or an edge endpoint) minus the
\* ids removed by removeNodeFromAdjacencyListComponents.
C2_Coverage == KeysOf(components) = universe

\* C3: after every call each component, its edges taken in either direction,
\* is connected.
C3_Connected == \A k \in 1..Len(components) : Connected(components[k])

\* C4: addEdgeToAdjacencyListComponents on a valid partition whose parentNode
\* and childNode are keys of two different components removes both, appends
\* one component whose keys are the union of the two key sets and whose
\* parentNode list contains childNode, and so has one component less.
C4_Case ==
    /\ lastOp.op = "addEdge"
    /\ ValidPartition(prev)
    /\ \E i, j \in 1..Len(prev) :
          i # j /\ lastOp.a \in DOMAIN prev[i] /\ lastOp.b \in DOMAIN prev[j]

C4_MergeCorrect ==
    C4_Case =>
        LET i == CHOOSE k \in 1..Len(prev) : lastOp.a \in DOMAIN prev[k]
            j == CHOOSE k \in 1..Len(prev) : lastOp.b \in DOMAIN prev[k]
            n == Len(components)
        IN /\ ~fault
           /\ n = Len(prev) - 1
           /\ DOMAIN components[n] = (DOMAIN prev[i]) \cup (DOMAIN prev[j])
           /\ includes(components[n][lastOp.a], lastOp.b)
           /\ {components[k] : k \in 1..(n - 1)} =
                 {prev[k] : k \in (1..Len(prev)) \ {i, j}}

C4_Witness ==
    /\ C4_Case
    /\ Len(prev) >= 3
    /\ Len(components) = Len(prev) - 1
    /\ Cardinality(DOMAIN components[Len(components)]) >= 2

\* C5: when parentNode and childNode are keys of the same component,
\* addEdgeToAdjacencyListComponents adds the edge in place: the number of
\* components, every key set and every list but parentNode's are unchanged.
C5_Case ==
    /\ lastOp.op = "addEdge"
    /\ \E k \in 1..Len(prev) : {lastOp.a, lastOp.b} \subseteq DOMAIN prev[k]

C5_InPlace ==
    C5_Case =>
        /\ ~fault
        /\ Len(components) = Len(prev)
        /\ \A k \in 1..Len(prev) :
              /\ DOMAIN components[k] = DOMAIN prev[k]
              /\ \A n \in (DOMAIN prev[k]) \ {lastOp.a} : components[k][n] = prev[k][n]

\* the fragment g without the edge a -> b
WithoutEdge(g, a, b) == [g EXCEPT ![a] = SelectSeq(@, LAMBDA n : n # b)]

\* C6: removeEdgeFromAdjacencyListComponents on an existing edge replaces the
\* component by exactly two components whose key sets partition its key set
\* when the edge is the sole connection, direction ignored, between two halves
\* of the component, and leaves the number of components unchanged when the
\* edge is not such a bridge.
C6_Case ==
    /\ lastOp.op = "removeEdge"
    /\ firstWithBoth(prev, lastOp.a, lastOp.b) # 0
    /\ includes(prev[firstWithBoth(prev, lastOp.a, lastOp.b)][lastOp.a], lastOp.b)

C6_SplitCorrect ==
    C6_Case =>
        LET k == firstWithBoth(prev, lastOp.a, lastOp.b)
            bridge == lastOp.b \notin
                        ReachableFrom(WithoutEdge(prev[k], lastOp.a, lastOp.b), {lastOp.a})
            n == Len(components)
        IN /\ ~fault
           /\ IF bridge
              THEN /\ n = Len(prev) + 1
                   /\ SubSeq(components, 1, n - 2) = RemoveAt(prev, k)
                   /\ DOMAIN components[n - 1] # {}
                   /\ DOMAIN components[n] # {}
                   /\ (DOMAIN components[n - 1]) \cap (DOMAIN components[n]) = {}
                   /\ (DOMAIN components[n - 1]) \cup (DOMAIN components[n]) = DOMAIN prev[k]
              ELSE n = Len(prev)

\* the fragment g without the node id and without id in any list
WithoutNode(g, id) == [n \in (DOMAIN g) \ {id} |-> SelectSeq(g[n], LAMBDA x : x # id)]

\* C7: removeNodeFromAdjacencyListComponents for an id that is a key of a
\* component C (the first such component of the array when there are several)
\* deletes id from C and from C's lists; an emptied C is dropped, otherwise C
\* is replaced by exactly the weakly connected components of what remains (C
\* itself staying when that is one piece), so the number of components changes
\* by the number of pieces minus one.
C7_Case ==
    /\ lastOp.op = "removeNode"
    /\ Holders(prev, lastOp.a) # {}

C7_RemoveNode ==
    C7_Case =>
        LET k == CHOOSE i \in Holders(prev, lastOp.a) :
                    \A j \in Holders(prev, lastOp.a) : i <= j
            rest == WithoutNode(prev[k], lastOp.a)
            pieces == WeakComponents(rest)
            m == Cardinality(pieces)
            n == Len(components)
        IN /\ ~fault
           /\ n = Len(prev) + m - 1
           /\ IF m <= 1
              THEN components = (IF m = 0 THEN RemoveAt(prev, k)
                                 ELSE [prev EXCEPT ![k] = rest])
              ELSE /\ SubSeq(components, 1, n - m) = RemoveAt(prev, k)
                   /\ {components[i] : i \in (n - m + 1)..n} =
                         {Restrict(rest, P) : P \in pieces}

C7_Witness ==
    /\ C7_Case
    /\ Len(components) = Len(prev) + 1
    /\ Len(prev) >= 1
    /\ lastOp.a \notin KeysOf(components)

\* the elements of seq at the positions in S, in order
RECURSIVE AtPositions(_, _, _)
AtPositions(seq, S, i) ==
    IF i > Len(seq) THEN <<>>
    ELSE (IF i \in S THEN <<seq[i]>> ELSE <<>>) \o AtPositions(seq, S, i + 1)

\* C8: addNodetoAdjacencyListComponents with non-empty neighbors removes every
\* component containing at least one of the neighbors and appends a single
\* component whose keys are those components' keys plus id and all neighbors,
\* id's list containing every neighbor; with empty neighbors it appends the
\* singleton {id: []}.
C8_Case == lastOp.op = "addNode"

C8_AddNode ==
    C8_Case =>
        LET id == lastOp.a
            nbrs == lastOp.nbrs
            touched == {k \in 1..Len(prev) : (DOMAIN prev[k]) \cap Elems(nbrs) # {}}
            n == Len(components)
        IN /\ ~fault
           /\ IF nbrs = <<>>
              THEN components = Append(prev, (id :> <<>>))
              ELSE /\ n = Len(prev) - Cardinality(touched) + 1
                   /\ SubSeq(components, 1, n - 1) =
                         AtPositions(prev, (1..Len(prev)) \ touched, 1)
                   /\ DOMAIN components[n] =
                         UNION {DOMAIN prev[k] : k \in touched} \cup {id} \cup Elems(nbrs)
                   /\ Elems(nbrs) \subseteq Elems(components[n][id])

\* C9: addEdgeToAdjacencyListComponents with parent, child or both a key of no
\* component completes without a fault and leaves parent and child keys of one
\* and the same component whose parent list contains child.
C9_Case ==
    /\ lastOp.op = "addEdge"
    /\ (lastOp.a \notin KeysOf(prev) \/ lastOp.b \notin KeysOf(prev))

C9_ImplicitCreation ==
    C9_Case =>
        /\ ~fault
        /\ \E k \in 1..Len(components) :
              /\ {lastOp.a, lastOp.b} \subseteq DOMAIN components[k]
              /\ includes(components[k][lastOp.a], lastOp.b)

\* C10: removeEdgeFromAdjacencyListComponents for an edge that does not exist
\* is a silent no-op leaving the partition unchanged, also when parent and
\* child are keys of different components or one of them is a key of none.
C10_Case ==
    /\ lastOp.op = "removeEdge"
    /\ ~ \E k \in 1..Len(prev) :
            lastOp.a \in DOMAIN prev[k] /\ includes(prev[k][lastOp.a], lastOp.b)

C10_NoOp == C10_Case => (~fault /\ components = prev)

\* C11: getConnectedComponents in its default directed mode, on a graph whose
\* neighbours are all keys, returns exactly the weakly connected components:
\* the key sets of the fragments are pairwise disjoint, cover all keys, each is
\* one weakly connected component, and every node keeps its neighbour list.
C11_Case ==
    /\ call.fn = "getConnectedComponents"
    /\ ~call.bidirectional
    /\ Closed(call.before)

C11_WeakComponents ==
    C11_Case =>
        /\ ~result.fault
        /\ Disjoint(result.comps)
        /\ KeysOf(result.comps) = DOMAIN call.before
        /\ \A k \in 1..Len(result.comps) :
              /\ DOMAIN result.comps[k] \in WeakComponents(call.before)
              /\ \A n \in DOMAIN result.comps[k] : result.comps[k][n] = call.before[n]

\* two fragments, one of them held together by an edge into its first key
C11_Witness ==
    /\ C11_Case
    /\ Len(result.comps) = 2
    /\ \E k \in 1..2 : \E a, b \in DOMAIN result.comps[k] :
          a < b /\ includes(call.before[b], a) /\ ~includes(call.before[a], b)

\* C12: for the disconnected input {"0":["1"],"2":["3"]}, whose neighbours
\* "1" and "3" are not keys, getConnectedComponents in undirected mode returns
\* two fragments with the node sets {"0","1"} and {"2","3"}.
C12_Case ==
    /\ call.fn = "getConnectedComponents"
    /\ call.bidirectional
    /\ call.before = (0 :> <<1>> @@ 2 :> <<3>>)

C12_TwoFragments ==
    C12_Case =>
        /\ ~result.fault
        /\ Len(result.comps) = 2
        /\ DOMAIN result.comps[1] = {0, 1}
        /\ DOMAIN result.comps[2] = {2, 3}

\* the number of edges pointing into n
InDegree(g, n) == Cardinality({k \in DOMAIN g : includes(g[k], n)})

\* the ids reachable from the set S along the edges of g in their direction
RECURSIVE DirectedReach(_, _)
DirectedReach(g, S) ==
    LET T == S \cup {b \in UNION {Elems(g[a]) : a \in S \cap DOMAIN g} : TRUE}
    IN IF T = S THEN S ELSE DirectedReach(g, T)

\* the keys with in-degree 0 from which every key is reachable
TreeRoots(g) ==
    {r \in DOMAIN g : InDegree(g, r) = 0 /\ DOMAIN g \subseteq DirectedReach(g, {r})}

\* C13: isDirectedTree returns the first node, in key order, that has
\* in-degree 0 and from which every key is reachable along directed edges, and
\* returns false or null when there is no such node; for
\* {"0":["1","2"],"1":[],"2":["3"],"3":[]} it returns "0".
C13_Case == call.fn = "isDirectedTree"

C13_FirstRoot ==
    C13_Case =>
        /\ ~result.fault
        /\ IF TreeRoots(call.before) = {}
           THEN result.value \in {ReturnFalse, ReturnNull}
           ELSE result.value =
                   ReturnNode(CHOOSE r \in TreeRoots(call.before) :
                                 \A q \in TreeRoots(call.before) : r <= q)

\* g is a directed tree oriented away from r: no edge points into r, exactly
\* one edge points into every other key, and every key is reachable from r
IsOutTree(g, r) ==
    /\ r \in DOMAIN g
    /\ Closed(g)
    /\ InDegree(g, r) = 0
    /\ \A n \in (DOMAIN g) \ {r} : InDegree(g, n) = 1
    /\ DOMAIN g \subseteq DirectedReach(g, {r})

\* g is a directed tree plus one extra edge between two of its nodes
IsOutTreePlusEdge(g) ==
    \E u \in DOMAIN g : \E v \in Elems(g[u]) : \E r \in DOMAIN g :
        IsOutTree(WithoutEdge(g, u, v), r)

\* C14: for every directed tree oriented away from a root r isDirectedTree
\* returns r, and for such a tree with any single extra directed edge between
\* two of its nodes it returns false or null.
C14_Case == call.fn = "isDirectedTree"

C14_TreeOnly ==
    C14_Case =>
        /\ \A r \in DOMAIN call.before :
              IsOutTree(call.before, r) =>
                  (~result.fault /\ result.value = ReturnNode(r))
        /\ IsOutTreePlusEdge(call.before) =>
              (~result.fault /\ result.value \in {ReturnFalse, ReturnNull})

\* the edges of g with their direction forgotten
UndirectedEdges(g) == UNION {{{a, b} : b \in Elems(g[a])} : a \in DOMAIN g}

\* the symmetric closure of g has no cycle: no loop, and as many edges as a
\* forest on its keys has
UndirectedAcyclic(g) ==
    /\ \A a \in DOMAIN g : ~includes(g[a], a)
    /\ Cardinality(UndirectedEdges(g)) =
          Cardinality(DOMAIN g) - Cardinality(WeakComponents(g))

\* C15: isUndirectedTree returns true if and only if the symmetric closure of
\* the graph (a graph with at least one key) is both acyclic and connected;
\* it returns false for every graph with an undirected cycle such as
\* {"0":["1"],"1":["2"],"2":["0"]} and false for every graph that is not
\* weakly connected, even when each of its components is a tree.
C15_Case == call.fn = "isUndirectedTree" /\ DOMAIN call.before # {}

C15_AcyclicAndConnected ==
    C15_Case =>
        /\ ~result.fault
        /\ result.value = (UndirectedAcyclic(call.before) /\ Connected(call.before))

NoDuplicates(seq) == \A i, j \in 1..Len(seq) : i # j => seq[i] # seq[j]

\* C16: makeAdjacencyListBidirectional(G), for G whose neighbours are all
\* keys, returns the symmetric closure of G: the same key set, u in the list of
\* v exactly when G has the edge v->u or u->v, no list with duplicates, each
\* node's forward neighbours in their order at the front of its list, and
\* isBidirectional of the result is true.
C16_Case ==
    /\ call.fn = "makeAdjacencyListBidirectional"
    /\ Closed(call.before)

C17_Case == call.fn = "makeAdjacencyListBidirectional again"

C17_Idempotent ==
    C17_Case =>
        /\ ~result.fault
        /\ DOMAIN result.value = DOMAIN call.before
        /\ \A n \in DOMAIN call.before :
              Elems(result.value[n]) = Elems(call.before[n])

\* the first call added a reverse edge to the caller's graph
C17_Witness ==
    /\ C17_Case
    /\ Closed(graph)
    /\ \E n \in DOMAIN graph : Elems(call.before[n]) # Elems(graph[n])

\* C18: makeAdjacencyListBidirectional does not mutate its input: after the
\* call the argument graph has the same keys and, for every key, the same
\* neighbour list in the same order as before; isUndirectedTree, which calls
\* it, likewise leaves the caller's graph unchanged.
C18_Case == call.fn \in {"makeAdjacencyListBidirectional", "isUndirectedTree"}

C18_InputUnchanged == C18_Case => graph = call.before

\* the call added reverse edges to the graph it returned
C18_Witness ==
    /\ call.fn = "makeAdjacencyListBidirectional"
    /\ ~result.fault
    /\ \E n \in DOMAIN call.before : Len(result.value[n]) > Len(call.before[n])
    /\ graph = call.before

\* the ids of a nested tree, parent first, children in order
RECURSIVE TreeIds(_), ForestIds(_)
TreeIds(tree) == <<tree.id>> \o ForestIds(tree.children)

ForestIds(trees) ==
    IF trees = <<>> THEN <<>>
    ELSE TreeIds(Head(trees)) \o ForestIds(Tail(trees))

\* C19: treeAdjacencyListToNestedList(graph, root), for every weakly connected
\* graph whose neighbours are all keys (graphs with cycles included) and every
\* key root, terminates and returns a nested tree in which each key appears as
\* an id exactly once: no id is repeated and no node is missing.
C19_Case ==
    /\ call.fn = "treeAdjacencyListToNestedList"
    /\ call.root \in DOMAIN call.before
    /\ Closed(call.before)
    /\ Connected(call.before)

C19_EachKeyOnce ==
    C19_Case =>
        /\ ~result.fault
        /\ result.tree.id = call.root
        /\ NoDuplicates(TreeIds(result.tree))
        /\ Elems(TreeIds(result.tree)) = DOMAIN call.before

\* a graph with a cycle through three keys, built from a root that is not
\* the first key
C19_Witness ==
    /\ C19_Case
    /\ call.root # 0
    /\ Cardinality(DOMAIN call.before) >= 3
    /\ \A n \in DOMAIN call.before : ~includes(call.before[n], n)
    /\ ~UndirectedAcyclic(call.before)
    /\ Len(TreeIds(result.tree)) >= 3

\* a nested tree and all the trees nested in it
RECURSIVE Subtrees(_)
Subtrees(tree) ==
    {tree} \cup UNION {Subtrees(tree.children[i]) : i \in 1..Len(tree.children)}

\* the position of x in seq, 0 when it is not there
PositionOf(seq, x) ==
    IF includes(seq, x) THEN CHOOSE i \in 1..Len(seq) : seq[i] = x ELSE 0

\* the forward neighbours of n in list order, then the nodes that point to n
\* in key order, each id once
Candidates(g, n) ==
    unique(g[n] \o SelectSeq(SortedSeq(DOMAIN g), LAMBDA k : includes(g[k], n)))

\* the children of t are the candidates of its node that were not visited
\* when their turn came, in the order of the candidates: a candidate left out
\* is in the whole tree at or before t's node, or under a child of t that
\* comes from an earlier candidate
ChildrenInOrder(g, whole, t) ==
    LET cand == Candidates(g, t.id)
        kids == [i \in 1..Len(t.children) |-> t.children[i].id]
        order == TreeIds(whole)
    IN /\ kids = SelectSeq(cand, LAMBDA c : includes(kids, c))
       /\ \A c \in Elems(cand) \ Elems(kids) :
             \/ /\ PositionOf(order, c) # 0
                /\ PositionOf(order, c) <= PositionOf(order, t.id)
             \/ \E j \in 1..Len(kids) :
                   /\ PositionOf(cand, kids[j]) < PositionOf(cand, c)
                   /\ includes(TreeIds(t.children[j]), c)

\* C20: the children of each node of the tree returned by
\* treeAdjacencyListToNestedList appear in neighbour-list order: first the
\* node's forward neighbours in list order, then the nodes that point to it in
\* key order, skipping the nodes already visited; for
\* {"0":["1","2"],"1":[],"2":["3"],"3":[]} and root "0" the result is
\* {id:"0", children:[{id:"1",children:[]},{id:"2",children:[{id:"3",children:[]}]}]}.
C20_Case ==
    /\ call.fn = "treeAdjacencyListToNestedList"
    /\ call.root \in DOMAIN call.before
    /\ Closed(call.before)

C20_ChildOrder ==
    C20_Case =>
        /\ ~result.fault
        /\ \A t \in Subtrees(result.tree) :
              ChildrenInOrder(call.before, result.tree, t)
        /\ (call.root = 0 /\
            call.before = (0 :> <<1, 2>> @@ 1 :> <<>> @@ 2 :> <<3>> @@ 3 :> <<>>)) =>
               result.tree =
                  [id |-> 0,
                   children |-> << [id |-> 1, children |-> <<>>],
                                   [id |-> 2, children |->
                                       << [id |-> 3, children |-> <<>>] >>] >>]

\* a node whose children are a forward neighbour followed by a node that
\* points to it, and one of whose candidates was skipped
C20_Witness ==
    /\ C20_Case
    /\ \E t \in Subtrees(result.tree) :
          /\ Len(t.children) = 2
          /\ includes(call.before[t.id], t.children[1].id)
          /\ ~includes(call.before[t.id], t.children[2].id)
          /\ Len(Candidates(call.before, t.id)) > 2

----------------------------------------------------------------------------
(* Claims about the primitives (SpecEdit) *)

\* the ids of neighbors that were not in old, each once, in input order
NewNeighbors(old, neighbors) ==
    AtPositions(neighbors,
                {i \in 1..Len(neighbors) :
                    /\ ~includes(old, neighbors[i])
                    /\ \A j \in 1..(i - 1) : neighbors[j] # neighbors[i]},
                1)

\* the list of id in g, empty when id is not a key
ListOf(g, id) == IF id \in DOMAIN g THEN g[id] ELSE <<>>

\* C21: addNodeToAdjacencyList(graph, id, neighbors) always succeeds and
\* afterwards id is a key, every element of neighbors is a key (with an empty
\* list when it was missing), the list of id is its previous list in unchanged
\* order followed by the neighbors not previously in it, in input order, and
\* every other pre-existing key keeps its list.
C21_Case == call.fn = "addNodeToAdjacencyList"

C21_UnionInOrder ==
    C21_Case =>
        /\ ~result.fault
        /\ call.node \in DOMAIN graph
        /\ Elems(call.neighbors) \subseteq DOMAIN graph
        /\ \A n \in Elems(call.neighbors) \ (DOMAIN call.before \cup {call.node}) :
              graph[n] = <<>>
        /\ graph[call.node] =
              ListOf(call.before, call.node)
                 \o NewNeighbors(ListOf(call.before, call.node), call.neighbors)
        /\ \A n \in DOMAIN call.before \ {call.node} : graph[n] = call.before[n]

\* C22: neighbor lists never contain duplicates: starting from a graph whose
\* lists are duplicate-free, after any sequence of addNodeToAdjacencyList,
\* addEdgeToAdjacencyList, removeNodeFromAdjacencyList and
\* removeEdgeFromAdjacencyList calls (also addNode of a not-yet-present id with
\* a neighbors argument that repeats an id), every list is duplicate-free.
C22_DuplicateFree == \A n \in DOMAIN graph : NoDuplicates(graph[n])

\* C23: addEdgeToAdjacencyList(graph, parent, child, bidirectional = true)
\* completes and afterwards the graph contains both the edge parent->child and
\* the reverse edge child->parent, with both endpoints present as keys; with
\* bidirectional = false only parent->child is added.
C23_Case == call.fn = "addEdgeToAdjacencyList"

HasEdge(g, a, b) == a \in DOMAIN g /\ includes(g[a], b)

C23_BothDirections ==
    C23_Case =>
        /\ ~result.fault
        /\ {call.node, call.other} \subseteq DOMAIN graph
        /\ HasEdge(graph, call.node, call.other)
        /\ call.bidirectional => HasEdge(graph, call.other, call.node)
        /\ ~call.bidirectional =>
              \A a \in DOMAIN graph : \A b \in Elems(graph[a]) :
                  <<a, b>> = <<call.node, call.other>> \/ HasEdge(call.before, a, b)

\* C24: removeEdgeFromAdjacencyList(graph, parent, child, bidirectional)
\* removes child from parent's list (and parent from child's list when
\* bidirectional) and changes nothing else; whenever the edge is not in the
\* graph, also when parent or child is not a key, the call is a no-op that
\* raises no fault and leaves the graph unchanged.
C24_Case == call.fn = "removeEdgeFromAdjacencyList"

C24_Removed(n) ==
    IF n = call.node THEN {call.other}
    ELSE IF call.bidirectional /\ n = call.other THEN {call.node}
    ELSE {}

C24_OnlyThatEdge ==
    C24_Case =>
        /\ ~result.fault
        /\ DOMAIN graph = DOMAIN call.before
        /\ \A n \in DOMAIN graph :
              graph[n] = SelectSeq(call.before[n], LAMBDA x : x \notin C24_Removed(n))

\* C25: removeNodeFromAdjacencyList(graph, id) leaves a graph in which id is
\* not a key and occurs in no neighbor list, while every other key remains
\* with its list equal to the previous list with id filtered out (order
\* preserved); when id is not a key the call raises no fault and the key set
\* is unchanged.
C25_Case == call.fn = "removeNodeFromAdjacencyList"

C25_NodeGone ==
    C25_Case =>
        /\ ~result.fault
        /\ call.node \notin DOMAIN graph
        /\ \A n \in DOMAIN graph : ~includes(graph[n], call.node)
        /\ DOMAIN graph = DOMAIN call.before \ {call.node}
        /\ \A n \in DOMAIN graph :
              graph[n] = SelectSeq(call.before[n], LAMBDA x : x # call.node)

\* id was a key and stood between two other ids in another key's list
C25_Witness ==
    /\ C25_Case
    /\ call.node \in DOMAIN call.before
    /\ \E n \in DOMAIN graph :
          /\ Len(call.before[n]) >= 3
          /\ call.before[n][2] = call.node
          /\ Len(graph[n]) = 2

----------------------------------------------------------------------------
(* Claims about isDirectedAcyclicGraph and isTree *)

\* some key is reached again along directed edges leaving it
HasDirectedCycle(g) ==
    \E n \in DOMAIN g : n \in DirectedReach(g, Elems(g[n]))

\* C26: isDirectedAcyclicGraph(graph) returns true if and only if the directed
\* graph has no directed cycle: true for every DAG (also one where a node is
\* reached by two paths, as in the diamond 0->1, 0->2, 1->3, 2->3) and false
\* for every graph with a directed cycle (also the 2-cycle 0->1, 1->0).
C26_Case == call.fn = "isDirectedAcyclicGraph"

C26_IffNoCycle ==
    C26_Case =>
        /\ ~result.fault
        /\ result.value <=> ~HasDirectedCycle(call.before)

----------------------------------------------------------------------------
(* Further claims about the component-level operations *)

\* the ids named by the last call: the node and its neighbors, or the two
\* endpoints of the edge
NamedIds ==
    CASE lastOp.op = "addNode" -> {lastOp.a} \cup Elems(lastOp.nbrs)
      [] lastOp.op = "removeNode" -> {lastOp.a}
      [] lastOp.op \in {"addEdge", "removeEdge"} -> {lastOp.a, lastOp.b}
      [] OTHER -> {}

\* C27: locality of partition updates: each of the four component-level
\* operations leaves every component that contains none of the ids named by
\* the call (the node, its neighbors, or the edge endpoints) in the partition
\* with its key set and neighbor lists unchanged, also when a named id is a
\* key of no component.
C27_Case == lastOp.op \in {"addNode", "removeNode", "addEdge", "removeEdge"}

C27_Locality ==
    C27_Case =>
        \A i \in 1..Len(prev) :
            (DOMAIN prev[i]) \cap NamedIds = {} =>
                \E j \in 1..Len(components) : components[j] = prev[i]

\* C28: isTree(graph, bidirectional = false), the classifier the top-level
\* program uses to filter components before rendering, returns true only when
\* the symmetrized graph is acyclic and connected: any back-edge to a visited
\* node other than the immediate parent makes the result false, so a 3-node
\* cycle is never accepted as a tree.
C28_Case == call.fn = "isTree" /\ ~call.bidirectional

C28_OnlyTrees ==
    (C28_Case /\ ~result.fault /\ result.value) =>
        (UndirectedAcyclic(call.before) /\ Connected(call.before))

\* C29: per-component closure: starting from the directed-mode partition of a
\* graph whose neighbors are all keys, after any sequence of component-level
\* insert and remove operations that complete, every id occurring in a
\* neighbor list of a component is a key of that same component (no
\* cross-component and no dangling neighbor references).  A call that throws
\* leaves the array as it was, so the components are closed in every state.
C29_Closure == \A k \in 1..Len(components) : Closed(components[k])

\* the last of MaxOps completed calls was a removal that split a component,
\* and an edge is left
C29_Witness ==
    /\ nOps = MaxOps
    /\ ~fault
    /\ lastOp.op \in {"removeNode", "removeEdge"}
    /\ Len(components) > Len(prev)
    /\ \E k \in 1..Len(components) : \E n \in DOMAIN components[k] :
          components[k][n] # <<>>

\* the same components, in any order
SamePartition(P, R) ==
    /\ Len(P) = Len(R)
    /\ {P[k] : k \in 1..Len(P)} = {R[k] : k \in 1..Len(R)}

\* parentNode and childNode are keys of two different components of the valid
\* partition P and no edge joins them; the components of a valid partition
\* are adjacency graphs, whose lists hold no id twice
Separated(P, parentNode, childNode) ==
    /\ ValidPartition(P)
    /\ \A k \in 1..Len(P) : \A n \in DOMAIN P[k] : NoDuplicates(P[k][n])
    /\ \E i, j \in 1..Len(P) :
          /\ i # j
          /\ parentNode \in DOMAIN P[i]
          /\ childNode \in DOMAIN P[j]
          /\ ~includes(P[i][parentNode], childNode)
          /\ ~includes(P[j][childNode], parentNode)

\* C30: insert/remove round trip: in a valid partition where parent and child
\* are keys of two different components and no edge joins them,
\* addEdgeToAdjacencyListComponents(components, parent, child) followed by
\* removeEdgeFromAdjacencyListComponents(components, parent, child) yields a
\* partition with the same family of component key sets and the same neighbor
\* list for every node as before the two calls (component order aside).
\* In a state reached by such an addEdge, prev is the partition before it.
C30_Case ==
    /\ lastOp.op = "addEdge"
    /\ ~fault
    /\ Separated(prev, lastOp.a, lastOp.b)

C30_RoundTrip ==
    [][(/\ C30_Case
        /\ lastOp'.op = "removeEdge"
        /\ lastOp'.a = lastOp.a
        /\ lastOp'.b = lastOp.b)
          => (~fault' /\ SamePartition(prev, components'))]_vars

\* the number of edges of g
EdgeCount(g) ==
    Cardinality(UNION {{<<n, i>> : i \in 1..Len(g[n])} : n \in DOMAIN g})

\* the arrays holding the components of comps in some order
Reordered(comps) ==
    {[i \in 1..Len(comps) |-> comps[f[i]]] :
        f \in {h \in [1..Len(comps) -> 1..Len(comps)] :
                  \A i, j \in 1..Len(comps) : i # j => h[i] # h[j]}}

\* P is an initial array of SpecRoundTrip: what the scan makes of an input
\* graph, which is then the union of the components of P
Scanned(P) ==
    LET g == mergeAdjacencyListsOfUnconnectedGraphs(P)
    IN /\ DOMAIN g = 0..(Cardinality(DOMAIN g) - 1)
       /\ Closed(g)
       /\ \A n \in DOMAIN g : NoDuplicates(g[n])
       /\ EdgeCount(g) <= MaxScannedEdges
       /\ getConnectedComponents(g).comps = P

\* The state a round trip ends in when it is made on an initial array P in
\* which parent lies in a component of two nodes: the array before the
\* removeEdge is what addEdge made of P, and the components are those of P
\* again.  P and the two calls fix every variable of that state.
C30_Witness ==
    /\ lastOp.op = "removeEdge"
    /\ ~fault
    /\ \E P \in Reordered(components) :
          /\ Scanned(P)
          /\ Separated(P, lastOp.a, lastOp.b)
          /\ \E k \in 1..Len(P) :
                lastOp.a \in DOMAIN P[k] /\ Cardinality(DOMAIN P[k]) >= 2
          /\ universe = KeysOf(P)
          /\ prev = addEdgeToAdjacencyListComponents(P, lastOp.a, lastOp.b).comps
          /\ Len(prev) = Len(P) - 1

====
